---- MODULE Spec2Model ----
(***************************************************************************)
(* Model of the grid-trading execution controller of src/trading_bot.py:   *)
(* TradingBot.run (the control loop), the order lifecycle                  *)
(* (_place_and_monitor_open_order, _handle_order_result), the push         *)
(* notification handler (order_update_handler), the reconciler, the price  *)
(* guard, the grid spacing check and the cooldown.  The exchange client,   *)
(* the transaction ledger and the notification sink are the environment.   *)
(*                                                                         *)
(* Amounts are whole multiples of the exchange's lot step (an order of     *)
(* quantity 1 cannot fill partly, one of quantity 2 can).                  *)
(* Prices are integers; percentages are whole percents, and every          *)
(* comparison of ratios is done by cross-multiplication, so it is exact.   *)
(***************************************************************************)
EXTENDS Integers, Sequences, FiniteSets, TLC

\* ------------------------------------------------------------------ bounds
\* entry orders the exchange accepts in one run (later ones are rejected)
MaxEntries == 2
\* resting close orders the exchange accepts (later ones are rejected)
MaxClose == 2
\* ledger rows per order id are counted up to this number
MaxLedger == 2
\* the exchange rejects a market order that would take |position| beyond this
MaxPos == 2
\* clock ticks in one second
TicksPerSecond == 2
\* close orders in the snapshots the gating is tried on
MaxGateOrders == 3

\* ----------------------------------------------------- TradingConfig values
take_profit == 1
grid_step == 2
max_orders == 2
wait_time == 1
\* the age of self.last_open_order_time is followed up to one tick beyond the
\* cooldown
MaxAge == wait_time * TicksPerSecond + 1

\* the price the exchange reports for an entry order
EntryPrice == 100
\* order id used by push notifications about close orders
CloseId == 0

VARIABLES
    config,                     \* TradingConfig: direction, quantity, boost_mode, exchange,
                                \* stop_price, pause_price
    active_close_orders,        \* self.active_close_orders: sequence of [price, size]
    position_amt,               \* self.position_amt
    last_close_orders,          \* self.last_close_orders
    open_order_age,             \* time.time() - self.open_order_age in ticks, up to
                                \* MaxAge (-1: self.open_order_age is 0)
    current_order_status,       \* self.current_order_status
    order_filled_event,         \* self.order_filled_event
    order_canceled_event,       \* self.order_canceled_event
    order_filled_amount,        \* self.order_filled_amount
    shutdown_requested,         \* self.shutdown_requested
    loop,                       \* self.loop ("None" until run() captures it)
    grid_except_price,          \* self.grid_except_price, in 1/100 (-1 = None)
    pc,                         \* position of run()
    mismatch_detected_count,    \* local of run()
    active_close_orders_filled, \* local of run()
    order_result,               \* local of _place_and_monitor_open_order
    connected,                  \* exchange: the client is connected
    ex_open,                    \* exchange: entry orders, id -> [status, filled]
    ex_close,                   \* exchange: resting close orders, sequence of [price, size]
    ex_position,                \* exchange: signed position
    ledger,                     \* transaction ledger: order id -> number of rows, for
                                \* the order ids whose rows are counted
    cyc,                        \* observation: what the current loop iteration has done,
                                \* and the sides of the close and correcting orders it
                                \* has asked for
    disconnects,                \* observation: disconnect calls, in order
    mismatch_run,               \* observation: polled cycles in a row that showed a
                                \* mismatch, counted up to MismatchLimit
    guard_seen,                 \* observation: the results PriceGuard has reported so far
    entry_age                   \* observation: the least time, in ticks up to MaxAge,
                                \* that has passed since the last entry order was
                                \* placed (-1: none placed yet, or a poll has seen the
                                \* close-order count decrease since; -2: not followed)

vars == <<config, active_close_orders, position_amt, last_close_orders,
          open_order_age, current_order_status, order_filled_event,
          order_canceled_event, order_filled_amount, shutdown_requested, loop,
          grid_except_price, pc, mismatch_detected_count,
          active_close_orders_filled, order_result,
          connected, ex_open, ex_close, ex_position, ledger, cyc,
          disconnects, mismatch_run, guard_seen, entry_age>>

\* the state the push notification handler may touch
handlerVars == <<current_order_status, order_filled_amount, order_filled_event,
                 order_canceled_event, ledger>>
\* the state of the exchange
exVars == <<connected, ex_open, ex_close, ex_position>>
\* the loop's own state
loopVars == <<active_close_orders, position_amt, last_close_orders,
              open_order_age, shutdown_requested, loop, grid_except_price,
              pc, mismatch_detected_count, active_close_orders_filled, order_result, cyc, disconnects, mismatch_run, guard_seen,
              entry_age>>

EntryIds == 1..MaxEntries
NoResult == [order_id |-> 0, status |-> "None", price |-> 0]

Min(a, b) == IF a < b THEN a ELSE b
Abs(x) == IF x < 0 THEN -x ELSE x

\* an age after `await asyncio.sleep(seconds)`, or after a wait_for that ran
\* into its timeout of so many seconds
Advance(age, seconds) ==
    IF age < 0 THEN age ELSE Min(age + seconds * TicksPerSecond, MaxAge)

\* a close side that follows the entry direction
close_order_side_same(c) == c.direction

\* TradingConfig.close_order_side
close_order_side(c) == IF c.direction = "sell" THEN "buy" ELSE "sell"

\* signed effect on the position of one unit traded on `side`
SideSign(side) == IF side = "buy" THEN 1 ELSE -1

RECURSIVE SumSizes(_)
SumSizes(orders) ==
    IF orders = <<>> THEN 0 ELSE Head(orders).size + SumSizes(Tail(orders))

\* sum(Decimal(order.get('size', 0)) for order in self.active_close_orders)
active_close_amount == SumSizes(active_close_orders)

\* ------------------------------------------------------------ configurations
StopPriceOf(d) == IF d = "buy" THEN 110 ELSE 90
PausePriceOf(d) == 100
\* the order sizes of the configurations
Quantities == {1}

Configs ==
    {c \in [direction : {"buy", "sell"}, quantity : Quantities,
            boost_mode : BOOLEAN,
            exchange : {"backpack", "edgex"},
            stop_price : {-1, 90, 110}, pause_price : {-1, 100}] :
        /\ c.stop_price \in {-1, StopPriceOf(c.direction)}
        /\ c.pause_price \in {-1, PausePriceOf(c.direction)}
        /\ c.stop_price = -1 => c.pause_price = -1
        /\ c.stop_price # -1 => ~c.boost_mode /\ c.exchange = "edgex"}

\* best bid / best ask pairs fetch_bbo_prices can return
BBOs == {<<0, 0>>, <<105, 104>>, <<89, 90>>, <<99, 100>>, <<102, 103>>,
         <<110, 111>>}


\* the state after TradingBot.__init__, for a configuration of `configs`; the
\* ledger rows of the entry orders `ids` are counted
InitBase(configs, ids) ==
    /\ config \in configs
    /\ active_close_orders = <<>>
    /\ position_amt = 0
    /\ last_close_orders = 0
    /\ open_order_age = -1
    /\ current_order_status = "None"
    /\ order_filled_event = FALSE
    /\ order_canceled_event = FALSE
    /\ order_filled_amount = 0
    /\ shutdown_requested = FALSE
    /\ loop = "None"
    /\ grid_except_price = -1
    /\ pc = "start"
    /\ mismatch_detected_count = 0
    /\ active_close_orders_filled = FALSE
    /\ order_result = NoResult
    /\ connected = FALSE
    /\ ex_open = [id \in EntryIds |-> [status |-> "NONE", filled |-> 0]]
    /\ ex_close = <<>>
    /\ ex_position = 0
    /\ ledger = [id \in ids |-> 0]
    /\ cyc = {}
    /\ disconnects = <<>>
    /\ mismatch_run = 0
    /\ guard_seen = {}

\* the same, with the time between entry orders not followed
InitOf(configs, ids) == InitBase(configs, ids) /\ entry_age = -2

Init == InitOf(Configs, {})

\* the buy grid with limit close orders, with the ledger rows of every entry
\* order counted
LedgerConfigs ==
    {c \in Configs : c.direction = "buy" /\ ~c.boost_mode /\ c.exchange = "edgex"}

InitLedger == InitOf(LedgerConfigs, EntryIds)

\* the buy grid with limit close orders, with the time since the last entry
\* order followed
InitCooldown == InitBase(LedgerConfigs, {}) /\ entry_age = -1

\* the close orders a poll can have stored when run() reaches the gating: up
\* to MaxGateOrders orders of one lot at these prices, in any order
GatePrices == {99, 101, 104, 110}

GateOrders ==
    UNION {[1..n -> [price : GatePrices, size : {1}]] : n \in 0..MaxGateOrders}

\* the configurations of the gating: both directions, limit close orders
GateConfigs ==
    {c \in Configs : c.stop_price = -1 /\ ~c.boost_mode /\ c.exchange = "edgex"}

\* run() in front of the gating (line 568) of some iteration
InitGate ==
    /\ entry_age = -2
    /\ config \in GateConfigs
    /\ active_close_orders \in GateOrders
    /\ position_amt = 0
    /\ last_close_orders \in 0..MaxGateOrders
    /\ open_order_age \in -1..MaxAge
    /\ current_order_status = "None"
    /\ order_filled_event = FALSE
    /\ order_canceled_event = FALSE
    /\ order_filled_amount = 0
    /\ shutdown_requested = FALSE
    /\ loop = "running"
    /\ grid_except_price \in {-1, 10000}
    /\ pc = "gate"
    /\ mismatch_detected_count = 0
    /\ active_close_orders_filled = FALSE
    /\ order_result = NoResult
    /\ connected = TRUE
    /\ ex_open = [id \in EntryIds |-> [status |-> "NONE", filled |-> 0]]
    /\ ex_close = <<>>
    /\ ex_position = 0
    /\ ledger = [id \in {} |-> 0]
    /\ cyc = {}
    /\ disconnects = <<>>
    /\ mismatch_run = 0
    /\ guard_seen = {}

\* the thresholds of the guard configurations
GuardPrices == {-1, 90, 100, 110}

\* the configurations of the price guard: both directions, every pair of
\* thresholds
GuardConfigs ==
    [direction : {"buy", "sell"}, quantity : Quantities, boost_mode : {FALSE},
     exchange : {"edgex"}, stop_price : GuardPrices, pause_price : GuardPrices]

\* run() in front of _check_price_condition (line 553) of some iteration
InitGuard ==
    /\ entry_age = -2
    /\ config \in GuardConfigs
    /\ active_close_orders = <<>>
    /\ position_amt = 0
    /\ last_close_orders = 0
    /\ open_order_age \in {-1, MaxAge}
    /\ current_order_status = "None"
    /\ order_filled_event = FALSE
    /\ order_canceled_event = FALSE
    /\ order_filled_amount = 0
    /\ shutdown_requested = FALSE
    /\ loop = "running"
    /\ grid_except_price = -1
    /\ pc = "price"
    /\ mismatch_detected_count \in {0, 1}
    /\ active_close_orders_filled \in BOOLEAN
    /\ order_result = NoResult
    /\ connected = TRUE
    /\ ex_open = [id \in EntryIds |-> [status |-> "NONE", filled |-> 0]]
    /\ ex_close = <<>>
    /\ ex_position = 0
    /\ ledger = [id \in {} |-> 0]
    /\ cyc = {}
    /\ disconnects = <<>>
    /\ mismatch_run = 0
    /\ guard_seen = {}

\* ------------------------------------------------------------- the exchange
RemoveAt(s, i) == SubSeq(s, 1, i - 1) \o SubSeq(s, i + 1, Len(s))

\* the exchange and the clock are followed where run() sleeps or waits: in the
\* sleep that ends an iteration, in the fill wait and in the cancel wait; the
\* steps of run() between two such points take no time
WaitPoints == {"wait_fill", "wait_cancel"}
EnvPoints == {"loop_top"} \cup WaitPoints
Running == connected /\ ~shutdown_requested /\ pc \in EnvPoints

\* an open entry order fills, partly or fully
EntryFills ==
    /\ Running
    /\ \E id \in EntryIds : \E f \in 1..config.quantity :
        /\ ex_open[id].status = "OPEN"
        /\ f > ex_open[id].filled
        /\ ex_open' = [ex_open EXCEPT ![id] =
                [status |-> IF f = config.quantity THEN "FILLED" ELSE "OPEN", filled |-> f]]
        /\ ex_position' = ex_position
                + SideSign(config.direction) * (f - ex_open[id].filled)
    /\ UNCHANGED <<config, handlerVars, loopVars, connected, ex_close>>

\* a resting close order fills
CloseFills ==
    /\ Running
    /\ pc = "loop_top"
    /\ \E i \in 1..Len(ex_close) :
        /\ ex_close' = RemoveAt(ex_close, i)
        /\ ex_position' = ex_position
                + SideSign(close_order_side(config)) * ex_close[i].size
    /\ UNCHANGED <<config, handlerVars, loopVars, connected, ex_open>>

\* time passes
Tick ==
    /\ Running
    /\ open_order_age \in 0..(MaxAge - 1) \/ entry_age \in 0..(MaxAge - 1)
    /\ open_order_age' = (IF open_order_age \in 0..(MaxAge - 1)
                          THEN open_order_age + 1 ELSE open_order_age)
    /\ entry_age' = (IF entry_age \in 0..(MaxAge - 1)
                     THEN entry_age + 1 ELSE entry_age)
    /\ UNCHANGED <<config, handlerVars, exVars, active_close_orders,
                   position_amt, last_close_orders, shutdown_requested, loop,
                   grid_except_price, pc, mismatch_detected_count,
                   active_close_orders_filled, order_result, cyc, disconnects,
                   mismatch_run, guard_seen>>

\* the push notifications the exchange may deliver now: the current state of
\* every entry order (a terminal state may be delivered any number of times),
\* notifications about close orders, and notifications of another contract
Messages ==
    {[contract_ok |-> TRUE, order_id |-> id, order_type |-> "OPEN",
      status |-> (IF ex_open[id].status = "OPEN" /\ ex_open[id].filled > 0
                  THEN "PARTIALLY_FILLED" ELSE ex_open[id].status),
      filled_size |-> ex_open[id].filled] :
        id \in {i \in EntryIds : ex_open[i].status # "NONE"}}
    \cup {[contract_ok |-> TRUE, order_id |-> CloseId, order_type |-> "CLOSE",
           status |-> s, filled_size |-> config.quantity] : s \in {"FILLED", "CANCELED"}}
    \cup {[contract_ok |-> FALSE, order_id |-> CloseId, order_type |-> "OPEN",
           status |-> "FILLED", filled_size |-> config.quantity]}

\* ---------------------------------------------------------------- the ledger
\* TradingLogger.log_transaction: one more row for the order id (the rows of
\* entry orders are counted, those of close orders are not)
log_transaction(l, order_id) ==
    IF order_id \in DOMAIN l
    THEN [l EXCEPT ![order_id] = Min(@ + 1, MaxLedger)]
    ELSE l

\* ------------------------------------------------- push notification handler
\* the handler writes self.current_order_status for entry order notifications
HandlerStatus(m) ==
    IF m.order_type = "OPEN" THEN m.status ELSE current_order_status

\* the handler writes self.order_filled_amount on a terminal entry notification
HandlerFilledAmount(m) ==
    IF m.order_type = "OPEN" /\ m.status \in {"FILLED", "CANCELED"}
    THEN m.filled_size ELSE order_filled_amount

\* the rows the handler appends
HandlerLedger(m) ==
    IF m.status = "FILLED" THEN log_transaction(ledger, m.order_id)
    ELSE IF m.status = "CANCELED" /\ m.order_type = "OPEN" /\ m.filled_size > 0
         THEN log_transaction(ledger, m.order_id)
         ELSE ledger

\* loop.call_soon_threadsafe(event.set), or event.set() itself: the callback
\* is taken to run before the loop's coroutine goes on (a later run is the
\* same as a later delivery of the notification)
order_update_handler(m) ==
    IF ~m.contract_ok
    THEN UNCHANGED handlerVars
    ELSE /\ current_order_status' = HandlerStatus(m)
         /\ order_filled_amount' = HandlerFilledAmount(m)
         /\ ledger' = HandlerLedger(m)
         /\ order_filled_event' =
                (IF m.order_type = "OPEN" /\ m.status = "FILLED"
                 THEN TRUE ELSE order_filled_event)
         /\ order_canceled_event' =
                (IF m.order_type = "OPEN" /\ m.status = "CANCELED"
                 THEN TRUE ELSE order_canceled_event)

\* the exchange client delivers one push notification (one that would come
\* during a sleep of run() comes in the next wait)
Handler ==
    /\ Running
    /\ pc \in WaitPoints
    /\ \E m \in Messages : order_update_handler(m)
    /\ UNCHANGED <<config, loopVars, exVars>>

\* --------------------------------------------------------- exchange requests
\* the outcomes of n exchange_client.disconnect() calls in a row: a call
\* succeeds or raises, and a call on a client that is disconnected succeeds
DisconnectOutcomes(n) ==
    {oks \in {[i \in 1..n |-> i > k] : k \in 0..n} :
        n = 0 \/ connected \/ oks[1]}

\* exchange_client.disconnect() called by each of `callers` in turn
Disconnected(callers, oks) ==
    /\ connected' = (connected /\ \A i \in 1..Len(oks) : ~oks[i])
    /\ disconnects' = disconnects \o
            [i \in 1..Len(callers) |-> [by |-> callers[i], ok |-> oks[i]]]

\* the outcomes of place_market_order(contract, config.quantity, side): the order
\* trades, the exchange answers without trading, or the request raises
MarketOutcomes(side) ==
    {"raise", "rejected"} \cup
    (IF \/ Abs(ex_position + SideSign(side) * config.quantity) <= MaxPos
        \/ Abs(ex_position + SideSign(side) * config.quantity) < Abs(ex_position)
     THEN {"filled"} ELSE {})

MarketPosition(side, outcome) ==
    IF outcome = "filled" THEN ex_position + SideSign(side) * config.quantity
    ELSE ex_position

\* the outcomes of place_close_order(contract, size, price, side): the order
\* rests, success is False, or the request raises
CloseOutcomes ==
    {"raise", "failed"} \cup (IF Len(ex_close) < MaxClose THEN {"placed"} ELSE {})

CloseBook(size, price, outcome) ==
    IF outcome = "placed" THEN Append(ex_close, [price |-> price, size |-> size])
    ELSE ex_close

\* get_active_orders(contract): the open entry orders and the close orders
RECURSIVE LiveEntries(_)
LiveEntries(n) ==
    IF n = 0 THEN <<>>
    ELSE LiveEntries(n - 1) \o
         (IF ex_open[n].status = "OPEN"
          THEN <<[side |-> config.direction, price |-> EntryPrice,
                  size |-> config.quantity]>>
          ELSE <<>>)

ActiveOrders ==
    LiveEntries(MaxEntries) \o
    [i \in 1..Len(ex_close) |->
        [side |-> close_order_side(config), price |-> ex_close[i].price,
         size |-> ex_close[i].size]]

\* the entry order id the exchange gives next (0: it accepts no more)
NextEntryId ==
    IF \E id \in EntryIds : ex_open[id].status = "NONE"
    THEN CHOOSE id \in EntryIds :
            /\ ex_open[id].status = "NONE"
            /\ \A j \in EntryIds : ex_open[j].status = "NONE" => id <= j
    ELSE 0

\* ------------------------------------------------------------ run(): set-up
\* the disconnect of graceful_shutdown, whose failure is swallowed
graceful_disconnect == <<"graceful">>

\* a finally block that does not disconnect
no_disconnect == <<>>

\* the disconnect of the finally block of run(), whose failure is logged
finally_disconnect == <<"finally">>

\* graceful_shutdown, followed in the same step by the disconnect calls `after`
graceful_shutdown(after) ==
    LET callers == graceful_disconnect \o after
    IN  /\ shutdown_requested' = TRUE
        /\ \E oks \in DisconnectOutcomes(Len(callers)) :
                Disconnected(callers, oks)

\* `except KeyboardInterrupt` and `except Exception` of run(): graceful
\* shutdown, then the finally block
Critical ==
    /\ graceful_shutdown(finally_disconnect)
    /\ pc' = "done"

\* get_contract_attributes, the configuration log, get_running_loop
Start ==
    /\ pc = "start"
    /\ \/ /\ loop' = "running"
          /\ pc' = "connect"
          /\ UNCHANGED <<shutdown_requested, connected, disconnects>>
       \/ /\ Critical
          /\ UNCHANGED loop
    /\ UNCHANGED <<config, entry_age, handlerVars, active_close_orders, position_amt,
                   last_close_orders, open_order_age, grid_except_price,
                   mismatch_detected_count, active_close_orders_filled,
                   order_result, ex_open, ex_close, ex_position, cyc,
                   mismatch_run, guard_seen>>

\* exchange_client.connect() and the settling sleep
Connect ==
    /\ pc = "connect"
    /\ \/ /\ connected' = TRUE
          /\ pc' = "loop_top"
          /\ UNCHANGED <<shutdown_requested, disconnects>>
       \/ Critical
    /\ UNCHANGED <<config, entry_age, handlerVars, active_close_orders, position_amt,
                   last_close_orders, open_order_age, loop,
                   grid_except_price, mismatch_detected_count,
                   active_close_orders_filled, order_result, ex_open,
                   ex_close, ex_position, cyc, mismatch_run, guard_seen>>

\* KeyboardInterrupt in a wait of the coordinator
Interrupt ==
    /\ pc \in WaitPoints
    /\ Critical
    /\ UNCHANGED <<config, entry_age, handlerVars, active_close_orders, position_amt,
                   last_close_orders, open_order_age, loop,
                   grid_except_price, mismatch_detected_count,
                   active_close_orders_filled, order_result, ex_open,
                   ex_close, ex_position, cyc, mismatch_run, guard_seen>>

\* `while not self.shutdown_requested:` is false: run() ends through finally
LoopExit ==
    /\ pc = "loop_top"
    /\ shutdown_requested
    /\ \E oks \in DisconnectOutcomes(Len(finally_disconnect)) :
            Disconnected(finally_disconnect, oks)
    /\ pc' = "done"
    /\ UNCHANGED <<config, entry_age, handlerVars, ex_open, ex_close, ex_position,
                   active_close_orders, position_amt, last_close_orders,
                   open_order_age, shutdown_requested, loop,
                   grid_except_price, mismatch_detected_count,
                   active_close_orders_filled, order_result, cyc,
                   mismatch_run, guard_seen>>

\* ------------------------------------------------------- run(): poll orders
\* the close-side orders of a get_active_orders answer, as price and size
CloseOrdersOf(orders) ==
    LET sel == SelectSeq(orders, LAMBDA o : o.side = close_order_side(config))
    IN  IF sel = <<>> THEN <<>>
        ELSE [i \in 1..Len(sel) |-> [price |-> sel[i].price, size |-> sel[i].size]]

\* get_active_orders (an empty answer is asked again, up to three times, with
\* a sleep in between: the last answer counts), the snapshot,
\* get_account_positions
Poll ==
    /\ pc = "loop_top"
    /\ ~shutdown_requested
    /\ cyc' = {}
    /\ \/ \* get_active_orders raises: sleep and continue
          /\ pc' = "loop_top"
          /\ active_close_orders_filled' = FALSE
          /\ UNCHANGED <<active_close_orders, position_amt>>
       \/ /\ active_close_orders_filled' =
                (Len(CloseOrdersOf(ActiveOrders)) < Len(active_close_orders))
          /\ active_close_orders' = CloseOrdersOf(ActiveOrders)
          /\ \/ \* get_account_positions answers
                /\ position_amt' = ex_position
                /\ pc' = "mismatch"
             \/ \* get_account_positions raises: sleep and continue
                /\ pc' = "loop_top"
                /\ UNCHANGED position_amt
    /\ entry_age' =
            (IF entry_age = -2 THEN -2
             ELSE IF active_close_orders_filled' THEN -1
             ELSE Advance(entry_age, IF pc' = "loop_top" THEN 1
                                     ELSE IF ActiveOrders = <<>> THEN 3 ELSE 0))
    /\ UNCHANGED <<config, handlerVars, exVars, last_close_orders,
                   open_order_age, shutdown_requested, loop,
                   grid_except_price, mismatch_detected_count, order_result,
                   disconnects, mismatch_run, guard_seen>>

\* --------------------------------------------------- run(): reconciliation
\* abs(self.position_amt - active_close_amount) > (1 * self.config.quantity)
Mismatch(pos, amount) == Abs(pos - amount) > 1 * config.quantity

\* a counter that a cycle without a mismatch leaves as it is
NextMismatchCountNoReset(count, mismatch) == IF mismatch THEN count + 1 ELSE count

\* mismatch_detected_count += 1, or = 0
NextMismatchCount(count, mismatch) == IF mismatch THEN count + 1 ELSE 0

\* `if mismatch_detected_count >= 3`
MismatchLimit == 3

\* a reconciler that corrects whenever the two amounts differ
RebalanceOnAnyDifference(pos, amount) == pos # amount

\* _rebalance_position: `if self.position_amt > active_close_amount`
RebalanceNeeded(pos, amount) == pos > amount

\* _lark_bot_notify: the alert goes out (or no token is set), or it raises
NotifyOutcomes == {"ok", "raise"}

CheckMismatch ==
    LET mm == Mismatch(position_amt, active_close_amount)
        count == NextMismatchCount(mismatch_detected_count, mm)
        side == close_order_side(config)
    IN
    /\ pc = "mismatch"
    /\ mismatch_run' = (IF mm THEN Min(mismatch_run + 1, MismatchLimit) ELSE 0)
    /\ IF count >= MismatchLimit
       THEN /\ mismatch_detected_count' = 0
            /\ \E n \in NotifyOutcomes :
                IF n = "raise"
                THEN \* the alert raises: critical error
                     /\ Critical
                     /\ cyc' = cyc \cup {"rebalance", "alert_failed"}
                     /\ UNCHANGED ex_position
                ELSE IF RebalanceNeeded(position_amt, active_close_amount)
                THEN \E o \in MarketOutcomes(side) :
                     /\ ex_position' = MarketPosition(side, o)
                     /\ pc' = (IF o = "raise" THEN "loop_top" ELSE "price")
                     /\ cyc' = cyc \cup {"rebalance", "rebalance_market", side}
                     /\ UNCHANGED <<shutdown_requested, connected, disconnects>>
                ELSE /\ pc' = "price"
                     /\ cyc' = cyc \cup {"rebalance"}
                     /\ UNCHANGED <<ex_position, shutdown_requested, connected,
                                    disconnects>>
       ELSE /\ mismatch_detected_count' = count
            /\ pc' = "price"
            /\ UNCHANGED <<cyc, ex_position, shutdown_requested, connected,
                           disconnects>>
    /\ entry_age' = (IF pc' = "loop_top" THEN Advance(entry_age, 1) ELSE entry_age)
    /\ UNCHANGED <<config, handlerVars, ex_open, ex_close, active_close_orders,
                   position_amt, last_close_orders, open_order_age, loop,
                   grid_except_price, active_close_orders_filled, order_result, guard_seen>>

\* --------------------------------------------------------- run(): PriceGuard
\* the answers of fetch_bbo_prices: a pair, or an exception
Fetches ==
    {[ok |-> TRUE, bid |-> b[1], ask |-> b[2]] : b \in BBOs}
    \cup {[ok |-> FALSE, bid |-> 0, ask |-> 0]}

\* a quote test that lets bid = ask through
BadQuoteCrossedOnly(f) == ~f.ok \/ f.bid <= 0 \/ f.ask <= 0 \/ f.bid > f.ask

\* `best_bid <= 0 or best_ask <= 0 or best_bid >= best_ask`, or the exception
BadQuote(f) == ~f.ok \/ f.bid <= 0 \/ f.ask <= 0 \/ f.bid >= f.ask

\* a guard disabled as soon as one of the two thresholds is the sentinel
GuardDisabledEither(c) == c.pause_price = -1 \/ c.stop_price = -1

\* `if self.config.pause_price == self.config.stop_price == -1`
GuardDisabled(c) == c.pause_price = c.stop_price /\ c.stop_price = -1

\* a stop comparison that misses the threshold itself
StopTriggeredStrict(c, f) ==
    /\ c.stop_price # -1
    /\ \/ c.direction = "buy" /\ f.ask > c.stop_price
       \/ c.direction = "sell" /\ f.bid < c.stop_price

StopTriggered(c, f) ==
    /\ c.stop_price # -1
    /\ \/ c.direction = "buy" /\ f.ask >= c.stop_price
       \/ c.direction = "sell" /\ f.bid <= c.stop_price

PauseTriggered(c, f) ==
    /\ c.pause_price # -1
    /\ \/ c.direction = "buy" /\ f.ask >= c.pause_price
       \/ c.direction = "sell" /\ f.bid <= c.pause_price

\* a guard that compares whatever the fetch left behind
check_price_condition_unvalidated(c, f) ==
    IF GuardDisabled(c) THEN <<FALSE, FALSE>>
    ELSE <<StopTriggered(c, f), PauseTriggered(c, f)>>

\* _check_price_condition: <<stop_trading, pause_trading>>
check_price_condition(c, f) ==
    IF GuardDisabled(c) THEN <<FALSE, FALSE>>
    ELSE IF BadQuote(f) THEN <<FALSE, FALSE>>
    ELSE <<StopTriggered(c, f), PauseTriggered(c, f)>>

\* a loop that looks at the pause result first
GuardBranchPauseFirst(stop_trading, pause_trading) ==
    IF pause_trading THEN "pause" ELSE IF stop_trading THEN "stop" ELSE "trade"

\* a loop that shuts down on either result
GuardBranchPauseStops(stop_trading, pause_trading) ==
    IF stop_trading \/ pause_trading THEN "stop" ELSE "trade"

\* run(): `if stop_trading: ... continue`, then `if pause_trading: ... continue`
GuardBranch(stop_trading, pause_trading) ==
    IF stop_trading THEN "stop" ELSE IF pause_trading THEN "pause" ELSE "trade"

\* a loop that gates every cycle
AfterGuardAlwaysGated(closed) == "gate"

\* run(): `if not active_close_orders_filled:` in front of the gating
AfterGuard(closed) == IF closed THEN "place" ELSE "gate"

GuardEvents(c, res) ==
    (IF res[1] THEN {"stop"} ELSE {})
    \cup (IF res[2] THEN {"pause"} ELSE {})

\* the call of fetch_bbo_prices that _check_price_condition makes
GuardFetch(c) == IF GuardDisabled(c) THEN {} ELSE {"guard_fetch"}

CheckPrice ==
    /\ pc = "price"
    /\ \E f \in Fetches :
        LET res == check_price_condition(config, f)
            branch == GuardBranch(res[1], res[2])
        IN
        /\ guard_seen' = guard_seen \cup GuardEvents(config, res)
        /\ entry_age' = (IF branch = "pause" THEN Advance(entry_age, 5)
                         ELSE entry_age)
        /\ IF branch = "stop"
           THEN \E n \in NotifyOutcomes :
                IF n = "ok"
                THEN /\ graceful_shutdown(<<>>)
                     /\ pc' = "loop_top"
                     /\ cyc' = cyc \cup GuardEvents(config, res) \cup GuardFetch(config)
                ELSE \* the alert raises after the shutdown: critical error,
                     \* a second graceful shutdown, finally
                     /\ graceful_shutdown(graceful_disconnect \o finally_disconnect)
                     /\ pc' = "done"
                     /\ cyc' = cyc \cup GuardEvents(config, res) \cup GuardFetch(config)
                                    \cup {"alert_failed"}
           ELSE /\ pc' = (IF branch = "pause" THEN "loop_top"
                          ELSE AfterGuard(active_close_orders_filled))
                /\ cyc' = cyc \cup GuardEvents(config, res) \cup GuardFetch(config)
                /\ UNCHANGED <<shutdown_requested, connected, disconnects>>
    /\ UNCHANGED <<config, handlerVars, ex_open, ex_close, ex_position,
                   active_close_orders, position_amt, last_close_orders,
                   open_order_age, loop, grid_except_price,
                   mismatch_detected_count, active_close_orders_filled, order_result, mismatch_run>>

\* ------------------------------------------------ run(): GridSpacingEvaluator
\* sorted(orders, key=price, reverse=...): a stable insertion sort
Before(a, b, reverse) ==
    IF reverse THEN a.price > b.price ELSE a.price < b.price

RECURSIVE InsertByPrice(_, _, _)
InsertByPrice(o, s, reverse) ==
    IF s = <<>> THEN <<o>>
    ELSE IF Before(o, Head(s), reverse) THEN <<o>> \o s
    ELSE <<Head(s)>> \o InsertByPrice(o, Tail(s), reverse)

RECURSIVE SortByPrice(_, _)
SortByPrice(s, reverse) ==
    IF s = <<>> THEN <<>>
    ELSE InsertByPrice(s[Len(s)], SortByPrice(SubSeq(s, 1, Len(s) - 1), reverse),
                       reverse)

\* round(n / d, 2) of a positive quotient given in 1/100: half to even
RoundHalfEven(n, d) ==
    LET q == n \div d
        r == n % d
    IN  IF 2 * r > d THEN q + 1
        ELSE IF 2 * r = d THEN (IF q % 2 = 0 THEN q ELSE q + 1)
        ELSE q

\* the orders as _meet_grid_step_condition leaves them
GridOrders(orders, c) ==
    IF Len(orders) > 1 THEN SortByPrice(orders, c.direction = "sell") ELSE orders

GridStepCount(orders) == IF Len(orders) > 1 THEN 2 ELSE 1

GridNextClosePrice(orders, c) ==
    IF Len(orders) > 1 THEN GridOrders(orders, c)[2].price ELSE orders[1].price

\* a ratio test that also lets the boundary through
GridRatioReached(direction, next_close_price, step_count, f) ==
    IF direction = "buy"
    THEN next_close_price * 100 * 100
            >= (100 + grid_step * step_count) * f.ask * (100 + take_profit)
    ELSE f.bid * (100 - take_profit)
            >= (100 + grid_step * step_count) * next_close_price

\* buy:  next_close_price / (best_ask * (1 + take_profit/100)) > 1 + grid_step/100*step_count
\* sell: (best_bid * (1 - take_profit/100)) / next_close_price > 1 + grid_step/100*step_count
GridRatioExceeded(direction, next_close_price, step_count, f) ==
    IF direction = "buy"
    THEN next_close_price * 100 * 100
            > (100 + grid_step * step_count) * f.ask * (100 + take_profit)
    ELSE f.bid * (100 - take_profit)
            > (100 + grid_step * step_count) * next_close_price

\* round(next_close_price / (1 + grid_step/100*step_count) / (1 - take_profit/100), 2)
GridExceptPrice(next_close_price, step_count) ==
    RoundHalfEven(next_close_price * 100 * 100 * 100,
                  (100 + grid_step * step_count) * (100 - take_profit))

\* an evaluator that looks at the quote before it looks at the order count
meet_grid_step_quote_first(orders, c, f, except) ==
    IF BadQuote(f)
    THEN [permit |-> FALSE, orders |-> orders, except |-> except, reason |-> "data"]
    ELSE [permit |-> TRUE, orders |-> orders, except |-> except, reason |-> "empty"]

\* _meet_grid_step_condition with the quote answer f:
\* the result, the sorted orders and self.grid_except_price
meet_grid_step_condition(orders, c, f, except) ==
    IF orders = <<>>
    THEN [permit |-> TRUE, orders |-> orders, except |-> except, reason |-> "empty"]
    ELSE IF BadQuote(f)
    THEN [permit |-> FALSE, orders |-> GridOrders(orders, c), except |-> except,
          reason |-> "data"]
    ELSE IF GridRatioExceeded(c.direction, GridNextClosePrice(orders, c),
                              GridStepCount(orders), f)
    THEN [permit |-> TRUE, orders |-> GridOrders(orders, c), except |-> except,
          reason |-> "spacing"]
    ELSE [permit |-> FALSE, orders |-> GridOrders(orders, c),
          except |-> GridExceptPrice(GridNextClosePrice(orders, c),
                                     GridStepCount(orders)),
          reason |-> "spacing"]

\* --------------------------------------------------- run(): CooldownScheduler
\* a scheduler that tests the maximum before it tests the decrease
calculate_wait_time_max_first(n, last_n, age) ==
    IF n >= max_orders
    THEN [wait |-> 1, last_close_orders |-> n, open_order_age |-> age]
    ELSE [wait |-> 0, last_close_orders |-> n,
          open_order_age |-> IF age = -1 THEN 0 ELSE age]

\* a scheduler that asks for the full base wait at the maximum
calculate_wait_time_full_wait(n, last_n, age) ==
    IF n < last_n
    THEN [wait |-> 0, last_close_orders |-> n, open_order_age |-> age]
    ELSE [wait |-> IF n >= max_orders THEN wait_time + 1 ELSE 0,
          last_close_orders |-> n, open_order_age |-> age]

\* _calculate_wait_time: the wait in seconds, self.last_close_orders and
\* the age of self.last_open_order_time as it leaves them; age is
\* time.time() - self.last_open_order_time, -1 when the latter is 0
calculate_wait_time(n, last_n, age) ==
    IF n < last_n
    THEN [wait |-> 0, last_close_orders |-> n, open_order_age |-> age]
    ELSE IF n >= max_orders
    THEN [wait |-> 1, last_close_orders |-> n, open_order_age |-> age]
    ELSE IF age = -1
    THEN [wait |-> 0, last_close_orders |-> n, open_order_age |-> 0]
    ELSE IF age > wait_time * TicksPerSecond
    THEN [wait |-> 0, last_close_orders |-> n, open_order_age |-> age]
    ELSE [wait |-> (wait_time * TicksPerSecond - age) \div TicksPerSecond,
          last_close_orders |-> n, open_order_age |-> age]

\* the gating of an iteration that saw no close order disappear
Gate ==
    /\ pc = "gate"
    /\ \E f \in Fetches :
        LET g == meet_grid_step_condition(active_close_orders, config, f,
                                          grid_except_price)
            w == calculate_wait_time(Len(active_close_orders), last_close_orders,
                                     open_order_age)
        IN
        /\ active_close_orders' = g.orders
        /\ grid_except_price' = g.except
        /\ IF ~g.permit
           THEN /\ pc' = "loop_top"
                /\ cyc' = cyc \cup {"denied"}
                /\ entry_age' = Advance(entry_age, 1)
                /\ UNCHANGED <<last_close_orders, open_order_age>>
           ELSE /\ last_close_orders' = w.last_close_orders
                /\ open_order_age' = w.open_order_age
                /\ cyc' = (IF w.wait > 0 THEN cyc \cup {"cooldown"} ELSE cyc)
                /\ entry_age' = (IF w.wait > 0 THEN Advance(entry_age, 1)
                                 ELSE entry_age)
                /\ pc' = (IF w.wait > 0 THEN "loop_top" ELSE "place")
    /\ UNCHANGED <<config, handlerVars, exVars, position_amt, shutdown_requested,
                   loop, mismatch_detected_count, active_close_orders_filled,
                   order_result, disconnects, mismatch_run,
                   guard_seen>>

\* ------------------------------------------------ OrderLifecycleCoordinator
\* filled_price * (1 + take_profit/100) for a sell close,
\* filled_price * (1 - take_profit/100) for a buy close
ClosePrice(filled_price, close_side) ==
    IF close_side = "sell" THEN (filled_price * (100 + take_profit)) \div 100
    ELSE (filled_price * (100 - take_profit)) \div 100

\* run(): `self.last_close_orders += 1` after the coordinator returns
Finish ==
    /\ last_close_orders' = last_close_orders + 1
    /\ pc' = "loop_top"
    /\ order_result' = NoResult

\* _place_and_monitor_open_order up to the fill wait
PlaceOpen ==
    /\ pc = "place"
    /\ order_filled_event' = FALSE
    /\ current_order_status' = "OPEN"
    /\ order_filled_amount' = 0
    /\ cyc' = cyc \cup {"place_open"}
    /\ entry_age' = (IF entry_age = -2 THEN -2 ELSE 0)
    /\ \/ \* place_open_order raises, or success is False: return False
          /\ Finish
          /\ UNCHANGED <<ex_open, ex_position>>
       \/ \* the order is accepted and rests, or fills at once
          /\ NextEntryId # 0
          /\ \E st \in {"OPEN", "FILLED"} :
              /\ ex_open' = [ex_open EXCEPT ![NextEntryId] =
                    [status |-> st, filled |-> IF st = "FILLED" THEN config.quantity ELSE 0]]
              /\ ex_position' = ex_position +
                    (IF st = "FILLED" THEN SideSign(config.direction) * config.quantity ELSE 0)
              /\ order_result' = [order_id |-> NextEntryId, status |-> st,
                                  price |-> EntryPrice]
          /\ pc' = "wait_fill"
          /\ UNCHANGED last_close_orders
    /\ UNCHANGED <<config, order_canceled_event, ledger, connected,
                   ex_close, active_close_orders, position_amt,
                   open_order_age, shutdown_requested, loop,
                   grid_except_price, mismatch_detected_count,
                   active_close_orders_filled, disconnects,
                   mismatch_run, guard_seen>>

\* _handle_order_result, `if self.order_filled_amount > 0:` (lines 293-322):
\* the close order for a filled remainder found after the cancel
ClosePart(amount, price, events) ==
    IF amount > 0
    THEN IF config.boost_mode
         THEN \* place_close_order is called without a price: it raises
              /\ cyc' = events
              /\ UNCHANGED <<ex_close, open_order_age>>
         ELSE \E o \in CloseOutcomes :
              /\ ex_close' = CloseBook(amount, price, o)
              /\ open_order_age' =
                    (IF o = "raise" THEN open_order_age ELSE 0)
              /\ cyc' = events \cup {"close", close_order_side(config)}
    ELSE /\ cyc' = events
         /\ UNCHANGED <<ex_close, open_order_age>>

\* a fill test that looks at the event only
FillSeenEventOnly(event, status) == event

\* `if self.order_filled_event.is_set() or order_result.status == 'FILLED'`
FillSeen(event, status) == event \/ status = "FILLED"

\* the outcomes of cancel_order(order_id)
CancelOutcomes(id) ==
    {"failed", "raise"} \cup (IF ex_open[id].status = "OPEN" THEN {"ok"} ELSE {})

\* the end of the fill wait and _handle_order_result up to the cancel wait
HandleResult ==
    LET id == order_result.order_id
        side == close_order_side(config)
        price == ClosePrice(order_result.price, side)
    IN
    /\ pc = "wait_fill"
    /\ IF FillSeen(order_filled_event, order_result.status)
       THEN /\ IF config.boost_mode
               THEN \E o \in MarketOutcomes(side) :
                    /\ ex_position' = MarketPosition(side, o)
                    /\ cyc' = cyc \cup {"market", side}
                    /\ UNCHANGED <<ex_close, open_order_age, entry_age>>
               ELSE \E o \in CloseOutcomes :
                    \* self.last_open_order_time = time.time(), and
                    \* asyncio.sleep(1) once the request has returned
                    /\ open_order_age' = (IF o = "raise" THEN 0
                                          ELSE Min(TicksPerSecond, MaxAge))
                    /\ entry_age' = (IF o = "raise" THEN entry_age
                                     ELSE Advance(entry_age, 1))
                    /\ ex_close' = CloseBook(config.quantity, price, o)
                    /\ cyc' = cyc \cup {"close", side}
                    /\ UNCHANGED ex_position
            /\ Finish
            /\ UNCHANGED <<ex_open, current_order_status, order_filled_amount,
                           order_canceled_event>>
       ELSE \E o \in CancelOutcomes(id) :
            \* the fill wait ran into its timeout of 10 seconds
            /\ entry_age' = Advance(entry_age, 10)
            /\ ex_open' = (IF o = "ok"
                           THEN [ex_open EXCEPT ![id].status = "CANCELED"]
                           ELSE ex_open)
            /\ current_order_status' =
                    (IF o = "ok" THEN "CANCELED" ELSE current_order_status)
            /\ order_canceled_event' = (o # "ok")
            /\ UNCHANGED ex_position
            /\ IF config.exchange = "backpack"
               THEN IF o = "raise"
                    THEN \* cancel_result is unbound: the read raises
                         /\ cyc' = cyc \cup {"cancel"}
                         /\ Finish
                         /\ UNCHANGED <<order_filled_amount, ex_close,
                                        open_order_age>>
                    ELSE /\ order_filled_amount' = ex_open[id].filled
                         /\ ClosePart(ex_open[id].filled, price, cyc \cup {"cancel"})
                         /\ Finish
               ELSE IF o # "ok"
                    THEN /\ ClosePart(order_filled_amount, price, cyc \cup {"cancel"})
                         /\ Finish
                         /\ UNCHANGED order_filled_amount
                    ELSE /\ pc' = "wait_cancel"
                         /\ cyc' = cyc \cup {"cancel"}
                         /\ UNCHANGED <<order_filled_amount, ex_close,
                                        open_order_age, last_close_orders,
                                        order_result>>
    /\ UNCHANGED <<config, order_filled_event, ledger, connected,
                   active_close_orders, position_amt, shutdown_requested, loop,
                   grid_except_price, mismatch_detected_count,
                   active_close_orders_filled, disconnects,
                   mismatch_run, guard_seen>>

\* the end of the cancel wait: the confirmation came, or get_order_info
WaitCancel ==
    LET id == order_result.order_id
        price == ClosePrice(order_result.price, close_order_side(config))
    IN
    /\ pc = "wait_cancel"
    /\ IF order_canceled_event
       THEN /\ ClosePart(order_filled_amount, price, cyc)
            /\ UNCHANGED order_filled_amount
       ELSE \/ /\ order_filled_amount' = ex_open[id].filled
               /\ ClosePart(ex_open[id].filled, price, cyc)
            \/ \* get_order_info raises: return False
               /\ UNCHANGED <<order_filled_amount, ex_close, open_order_age,
                              cyc>>
    /\ entry_age' = (IF order_canceled_event THEN entry_age
                     ELSE Advance(entry_age, 5))
    /\ Finish
    /\ UNCHANGED <<config, current_order_status, order_filled_event,
                   order_canceled_event, ledger, connected, ex_open,
                   ex_position, active_close_orders, position_amt,
                   shutdown_requested, loop, grid_except_price,
                   mismatch_detected_count, active_close_orders_filled, disconnects, mismatch_run, guard_seen>>

\* ------------------------------------------------------------ specification
Next ==
    \/ Start
    \/ Connect
    \/ LoopExit
    \/ Poll
    \/ CheckMismatch
    \/ CheckPrice
    \/ Gate
    \/ PlaceOpen
    \/ HandleResult
    \/ WaitCancel
    \/ Interrupt
    \/ Handler
    \/ EntryFills
    \/ CloseFills
    \/ Tick

Spec == Init /\ [][Next]_vars

SpecLedger == InitLedger /\ [][Next]_vars

\* the gating alone (GridSpacingEvaluator, CooldownScheduler), on every
\* snapshot of InitGate
\* run() with the time between entry orders followed
SpecCooldown == InitCooldown /\ [][Next]_vars

SpecGate == InitGate /\ [][Gate]_vars

\* _check_price_condition and the branch run() takes on its result, over every
\* pair of thresholds
SpecGuard == InitGuard /\ [][CheckPrice]_vars

\* ------------------------------------------------------------------ claims
\* C1: at every point of a run at most one entry order placed by the
\* controller is live (OPEN) on the exchange, also after a cancel request that
\* failed or a cancel confirmation that did not come
C1_OneLiveEntry ==
    Cardinality({id \in EntryIds : ex_open[id].status = "OPEN"}) <= 1

\* C2: the coordinator leaves a fill wait or a cancel wait with a close order
\* (or a closing market order) only when the entry order it waits for has
\* itself filled: a terminal notification of an entry order resolved earlier
\* resolves no wait and causes no close order
C2_NoCloseOnStaleNotification ==
    [][(pc \in WaitPoints /\ pc' = "loop_top"
            /\ cyc' \cap {"close", "market"} # {})
        => ex_open[order_result.order_id].filled > 0]_vars

\* C3: whatever notifications are delivered, and however often a terminal
\* one is repeated, the ledger holds at most one row per entry order id
C3_OneLedgerRow == \A id \in DOMAIN ledger : ledger[id] <= 1

\* C4: a run of the push notification handler changes neither the last-known
\* entry order status nor the filled amount (it only sets the events)
C4_HandlerWritesNoLoopState ==
    [][Handler => UNCHANGED <<current_order_status, order_filled_amount>>]_vars

\* C5: once PriceGuard has reported stop (with or without pause), the cycle
\* that saw it is the last one: the shutdown flag is set, the graceful
\* disconnect was called (and the client is disconnected if a disconnect
\* succeeded), the cycle placed no entry order and run() is at the loop
\* condition or has ended
C5_StopShutsDown ==
    "stop" \in guard_seen =>
        /\ "stop" \in cyc
        /\ "place_open" \notin cyc
        /\ shutdown_requested
        /\ \E i \in DOMAIN disconnects : disconnects[i].by = "graceful"
        /\ (\E i \in DOMAIN disconnects : disconnects[i].ok) => ~connected
        /\ pc \in {"loop_top", "done"}

\* C5 happens: stop and pause reported in one cycle, run() ended, disconnected
C5_StopReached ==
    /\ {"stop", "pause"} \subseteq cyc
    /\ pc = "done"
    /\ ~connected

\* C6: a cycle in which PriceGuard reported pause and not stop places no entry
\* order, cancels nothing, calls no disconnect and requests no shutdown: it
\* ends at the loop condition with the client connected
C6_PauseOnly ==
    ("pause" \in cyc /\ "stop" \notin cyc) =>
        /\ cyc \cap {"place_open", "cancel", "close", "market"} = {}
        /\ disconnects = <<>>
        /\ connected
        /\ ~shutdown_requested
        /\ pc = "loop_top"

\* C6 happens: after a paused cycle, a later cycle that saw no pause places an
\* entry order, with no disconnect in between
C6_Resumed ==
    /\ "pause" \in guard_seen
    /\ "pause" \notin cyc
    /\ "place_open" \in cyc
    /\ disconnects = <<>>
    /\ connected

\* C7: when run() has ended, the disconnect of the finally block was called,
\* whatever ended the run and whatever the graceful disconnect did
C7_DisconnectAttempted ==
    pc = "done" => \E i \in DOMAIN disconnects : disconnects[i].by = "finally"

\* C7 happens: the graceful disconnect failed and the finally block called
\* disconnect after it
C7_AfterFailedGraceful ==
    /\ pc = "done"
    /\ \E i, j \in DOMAIN disconnects :
        /\ i < j
        /\ disconnects[i] = [by |-> "graceful", ok |-> FALSE]
        /\ disconnects[j].by = "finally"

\* C8: the reconciliation step places its market order only when the polled
\* position exceeds the covered amount; when the position is not above the
\* covered amount the step places no order and changes nothing on the exchange
C8_RebalanceOnlyOnExcess ==
    [][pc = "mismatch" =>
        /\ "rebalance_market" \in cyc' => position_amt > active_close_amount
        /\ position_amt <= active_close_amount =>
                UNCHANGED <<ex_open, ex_close, ex_position>>]_vars

\* C8 happens: the reconciler has placed its market order
C8_MarketOrderPlaced ==
    /\ "rebalance_market" \in cyc
    /\ position_amt > active_close_amount
    /\ ex_position < position_amt

\* C9: the correction runs only in a cycle that is the third (or a later
\* third) of consecutive polled cycles showing a mismatch, the counter is zero
\* after it, zero after a cycle without mismatch, and never reaches the limit
C9_ThirdConsecutiveMismatch ==
    /\ "rebalance" \in cyc =>
            mismatch_run = MismatchLimit /\ mismatch_detected_count = 0
    /\ mismatch_run = 0 => mismatch_detected_count = 0
    /\ mismatch_detected_count <= mismatch_run
    /\ mismatch_detected_count < MismatchLimit

\* C9 happens: the correction ran in the third mismatching cycle
C9_CorrectionRan ==
    /\ "rebalance" \in cyc
    /\ mismatch_run = MismatchLimit
    /\ pc = "price"

\* C10: when the correction runs for a polled position whose magnitude exceeds
\* the covered amount, negative or positive, it places the market order
C10_MagnitudeCompared ==
    ("rebalance" \in cyc /\ pc # "done"
        /\ Abs(position_amt) > active_close_amount)
    => "rebalance_market" \in cyc

\* the second-nearest close price (the second lowest for buy, the second
\* highest for sell), or the only one
ReferencePrice(orders, direction) ==
    IF Len(orders) = 1 THEN orders[1].price
    ELSE CHOOSE p \in {orders[i].price : i \in 1..Len(orders)} :
            LET nearer == {i \in 1..Len(orders) :
                            IF direction = "buy" THEN orders[i].price < p
                            ELSE orders[i].price > p}
                same == {i \in 1..Len(orders) : orders[i].price = p}
            IN  Cardinality(nearer) <= 1 /\ Cardinality(nearer \cup same) >= 2

ReferenceSteps(orders) == IF Len(orders) >= 2 THEN 2 ELSE 1

\* reference / (best_ask * (1 + take_profit/100)) > 1 + grid_step/100 * steps
\* for buy, (best_bid * (1 - take_profit/100)) / reference > the same for
\* sell, both multiplied out
SpacingExceeded(orders, direction, bid, ask) ==
    LET ref == ReferencePrice(orders, direction)
        steps == ReferenceSteps(orders)
    IN  IF direction = "buy"
        THEN ref * 100 * 100 > (100 + grid_step * steps) * (ask * (100 + take_profit))
        ELSE bid * (100 - take_profit) * 100 > (100 + grid_step * steps) * ref * 100

ValidQuote(f) == f.ok /\ f.bid > 0 /\ f.ask > 0 /\ f.bid < f.ask

\* C11: with at least one active close order and valid market data the grid
\* check permits entry exactly when the ratio of the reference close price
\* (second-nearest with step count 2, or the only one with step count 1) and
\* the prospective close price exceeds 1 + grid_step/100 * step_count
C11_PermitIffSpacingExceeded ==
    (pc = "gate" /\ active_close_orders # <<>>) =>
        \A f \in Fetches :
            ValidQuote(f) =>
                (meet_grid_step_condition(active_close_orders, config, f,
                                          grid_except_price).permit
                 <=> SpacingExceeded(active_close_orders, config.direction,
                                     f.bid, f.ask))

\* C11 happens: the gating has let an entry through with two or more close
\* orders of different prices stored
C11_PermittedOnSecondNearest ==
    /\ pc = "place"
    /\ Len(active_close_orders) >= 2
    /\ active_close_orders[1].price # active_close_orders[2].price
    /\ config.direction = "sell"

\* C12: with zero active close orders the evaluator permits entry whatever
\* the configuration and the quote, a failed or invalid quote included, and
\* leaves the orders and the expected price as they were.
C12_EmptyBookPermits ==
    (pc = "gate" /\ active_close_orders = <<>>) =>
        \A f \in Fetches :
            LET g == meet_grid_step_condition(active_close_orders, config, f,
                                              grid_except_price)
            IN  g.permit /\ g.reason = "empty" /\ g.except = grid_except_price

\* the gate let an empty book through to the placement
C12_PlacedOnEmptyBook ==
    pc = "place" /\ active_close_orders = <<>> /\ last_close_orders = 0

\* the market price, as the fraction num/den of 1/100 units, at which the
\* spacing ratio of the direction equals 1 + grid_step/100 * step_count:
\* buy:  reference / (ask * (1 + take_profit/100)) = threshold
\* sell: (bid * (1 - take_profit/100)) / reference = threshold
BoundaryPrice(orders, direction) ==
    LET ref == ReferencePrice(orders, direction)
        t == 100 + grid_step * ReferenceSteps(orders)
    IN  IF direction = "buy"
        THEN [num |-> ref * 100 * 100 * 100, den |-> t * (100 + take_profit)]
        ELSE [num |-> ref * t * 100, den |-> 100 - take_profit]

\* e, in 1/100 units, is num/den rounded to two decimals
RoundedTo(e, b) ==
    /\ 2 * e * b.den - 2 * b.num <= b.den
    /\ 2 * b.num - 2 * e * b.den <= b.den

\* C13: whenever the evaluator denies on spacing grounds, the expected price
\* it exposes is, up to the 2-decimal rounding, the market price at which the
\* spacing ratio of the configured direction equals the threshold.
C13_ExpectedPriceIsBoundary ==
    (pc = "gate" /\ active_close_orders # <<>>) =>
        \A f \in Fetches :
            LET g == meet_grid_step_condition(active_close_orders, config, f,
                                              grid_except_price)
            IN  (ValidQuote(f) /\ ~g.permit) =>
                    RoundedTo(g.except,
                              BoundaryPrice(active_close_orders, config.direction))

\* answers of fetch_bbo_prices with one side missing, negative or equal to
\* the other, next to the ones of Fetches
Quotes ==
    Fetches \cup {[ok |-> TRUE, bid |-> b[1], ask |-> b[2]] :
                      b \in {<<0, 100>>, <<100, 0>>, <<-1, 100>>, <<100, 100>>}}

\* C14: with at least one active close order, a failed fetch, a non-positive
\* bid or ask, or a bid that is not below the ask denies entry, is reported as
\* a data condition and not as a spacing denial, and leaves the expected
\* price as it was.
C14_BadQuoteDenies ==
    (pc = "gate" /\ active_close_orders # <<>>) =>
        \A f \in Quotes :
            LET g == meet_grid_step_condition(active_close_orders, config, f,
                                              grid_except_price)
            IN  /\ ~ValidQuote(f) =>
                        ~g.permit /\ g.reason = "data" /\ g.except = grid_except_price
                /\ (ValidQuote(f) /\ ~g.permit) => g.reason = "spacing"

\* a denial that the spacing did not make: the expected price was not written
C14_DeniedOnData ==
    /\ pc = "loop_top" /\ active_close_orders # <<>>
    /\ "denied" \in cyc
    /\ grid_except_price = -1

\* C17: on the check at which the active close-order count is lower than the
\* count of the previous check, the scheduler returns 0, whatever the age of
\* the last entry order and whether or not the count has reached max_orders.
C17_DecreaseGivesZero ==
    (pc = "gate" /\ Len(active_close_orders) < last_close_orders) =>
        LET w == calculate_wait_time(Len(active_close_orders), last_close_orders,
                                     open_order_age)
        IN  w.wait = 0 /\ w.last_close_orders = Len(active_close_orders)

\* the gate went on to the placement inside the base wait with max_orders
\* close orders active: only a decrease lets it
C17_PlacedAfterDecrease ==
    /\ pc = "place" /\ Len(active_close_orders) >= max_orders
    /\ open_order_age \in 0..(wait_time * TicksPerSecond)

Crossed(direction, f, price) ==
    IF direction = "buy" THEN f.ask >= price ELSE f.bid <= price

\* C15 as stated: with an enabled threshold the stop (pause) result is true
\* exactly when the comparison holds, for every pair fetch_bbo_prices returns.
C15_TriggersOnEveryPair ==
    pc = "price" =>
        \A f \in Quotes : f.ok =>
            LET res == check_price_condition(config, f)
            IN  /\ config.stop_price # -1 =>
                        (res[1] <=> Crossed(config.direction, f, config.stop_price))
                /\ config.pause_price # -1 =>
                        (res[2] <=> Crossed(config.direction, f, config.pause_price))

\* C15 amended: with an enabled threshold the stop (pause) result is true
\* exactly when the comparison holds, for every pair with a positive bid, a
\* positive ask and the bid below the ask; for any other pair neither result
\* is true.
C15_TriggersOnValidPair ==
    pc = "price" =>
        \A f \in Quotes : f.ok =>
            LET res == check_price_condition(config, f)
            IN  IF ValidQuote(f)
                THEN /\ config.stop_price # -1 =>
                            (res[1] <=> Crossed(config.direction, f, config.stop_price))
                     /\ config.pause_price # -1 =>
                            (res[2] <=> Crossed(config.direction, f, config.pause_price))
                ELSE res = <<FALSE, FALSE>>

\* a sell grid with both thresholds enabled where the guard reported stop and
\* not pause
C15_StopBelowThreshold ==
    /\ config.direction = "sell" /\ config.pause_price # -1
    /\ "stop" \in cyc /\ "pause" \notin cyc
    /\ shutdown_requested

\* C16: a guard whose threshold is -1 never triggers, whatever the quote and
\* the other threshold, and the other guard triggers on its comparison as it
\* does with both enabled; with both thresholds at -1 neither stop nor pause
\* is reported and the guard fetches no market data.
C16_SentinelDisablesOneGuard ==
    /\ pc = "price" =>
          \A f \in Quotes :
              LET res == check_price_condition(config, f)
              IN  /\ config.stop_price = -1 => ~res[1]
                  /\ config.pause_price = -1 => ~res[2]
                  /\ (config.stop_price = -1 /\ config.pause_price # -1
                        /\ ValidQuote(f)) =>
                          (res[2] <=> Crossed(config.direction, f, config.pause_price))
                  /\ (config.pause_price = -1 /\ config.stop_price # -1
                        /\ ValidQuote(f)) =>
                          (res[1] <=> Crossed(config.direction, f, config.stop_price))
    /\ config.stop_price = -1 => "stop" \notin cyc
    /\ config.pause_price = -1 => "pause" \notin cyc
    /\ (config.stop_price = -1 /\ config.pause_price = -1) =>
          "guard_fetch" \notin cyc

\* the pause guard paused the cycle with the stop guard disabled
C16_PauseAloneWorked ==
    /\ config.stop_price = -1 /\ "pause" \in cyc
    /\ pc = "loop_top" /\ ~shutdown_requested

\* C20: with boost mode off, when the coordinator returns to the loop it has
\* asked for a limit close order in this cycle exactly when the entry order
\* it placed has a filled amount above zero, and then for one of the filled
\* size at the take-profit price; with a filled amount of zero it has asked
\* for none.
C20_CloseOrderIffFilled ==
    [][(pc \in WaitPoints /\ pc' = "loop_top" /\ ~config.boost_mode) =>
        LET id == order_result.order_id
        IN  /\ ex_open'[id].filled > 0 <=> "close" \in cyc'
            /\ (Len(ex_close') > Len(ex_close)) =>
                    ex_close'[Len(ex_close')] =
                        [price |-> ClosePrice(order_result.price,
                                              close_order_side(config)),
                         size |-> ex_open'[id].filled]]_vars

\* C19: when the loop places an entry order, at least wait_time seconds have
\* passed since it placed the entry order before, unless a poll has seen the
\* active close-order count decrease in between.
C19_BaseWaitBetweenEntries ==
    [][(pc = "place" /\ pc' # "place") =>
        (entry_age < 0 \/ entry_age >= wait_time * TicksPerSecond)]_vars

\* C21: in boost mode, when the coordinator returns to the loop with a filled
\* amount above zero, it has asked for a market order on the close side in
\* this cycle.
C21_BoostRemainderGetsMarketOrder ==
    [][(pc \in WaitPoints /\ pc' = "loop_top" /\ config.boost_mode
        /\ order_filled_amount' > 0) => "market" \in cyc']_vars

\* the side that is not the entry direction
Opposite(direction) == CHOOSE side \in {"buy", "sell"} : side # direction

\* C22: the close-order side of the configuration is the opposite of its
\* entry direction, and every close, market or correcting order of the cycle
\* was asked for on that side.
C22_CloseSideOpposite ==
    /\ close_order_side(config) = Opposite(config.direction)
    /\ \A side \in cyc \cap {"buy", "sell"} : side = Opposite(config.direction)

\* a sell grid has asked for a limit close order, on the buy side
C22_CloseOrderOnOppositeSide ==
    /\ config.direction = "sell"
    /\ {"close", "buy"} \subseteq cyc

\* C23: a cycle whose alert failed goes on as a cycle whose alert was sent:
\* run() has not ended in that cycle, and no shutdown was requested in it
\* unless PriceGuard reported stop.
C23_AlertFailureSwallowed ==
    "alert_failed" \in cyc =>
        /\ pc # "done"
        /\ shutdown_requested => "stop" \in cyc

\* C24: when the coordinator leaves the fill wait, it has issued a cancel
\* request exactly when the placement response did not report FILLED and no
\* fill was signalled; with a response that reports FILLED it has issued the
\* close (or market) order and no cancel; and when the placement fails it
\* returns with neither a cancel nor a close order issued.
C24_CancelIffUnfilled ==
    [][/\ (pc = "wait_fill" /\ pc' \in {"loop_top", "wait_cancel"}) =>
            /\ "cancel" \in cyc' <=>
                    (order_result.status # "FILLED" /\ ~order_filled_event)
            /\ order_result.status = "FILLED" =>
                    cyc' \cap {"close", "market"} # {}
       /\ (pc = "place" /\ pc' = "loop_top") =>
            cyc' \cap {"cancel", "close", "market"} = {}]_vars

\* an entry order that rested unfilled through the fill wait was canceled
\* and its confirmation is awaited
C24_CancelIssued ==
    /\ pc = "wait_cancel" /\ "cancel" \in cyc
    /\ ~order_filled_event /\ order_result.status = "OPEN"

\* C25: the iteration in which the correction ran, successfully or not,
\* places no entry order.
C25_NoEntryAfterCorrection ==
    "rebalance" \in cyc => "place_open" \notin cyc

\* C26: while the polled position exceeds the covered amount the controller
\* keeps correcting: after the reconciliation step of such a cycle either the
\* correction has run in it, or the consecutive-mismatch count has advanced
\* towards the next correction, which then follows within MismatchLimit cycles
\* if nothing else changes.
C26_ExcessKeepsCorrecting ==
    (pc = "price" /\ position_amt > active_close_amount) =>
        ("rebalance" \in cyc \/ mismatch_detected_count > 0)

\* C27: a poll sets the skip flag exactly when it shows fewer active close
\* orders than the stored snapshot; a cycle with the flag set that reaches the
\* end of the price guard without stop or pause goes straight to the
\* placement, with neither the grid check nor the cooldown consulted; and a
\* cycle reaches the placement in no other way than this or through a grid
\* check that permitted and a cooldown that returned zero.
C27_GatingSkippedOnDecrease ==
    [][/\ (pc = "loop_top" /\ pc' = "mismatch") =>
            (active_close_orders_filled'
                <=> Len(active_close_orders') < Len(active_close_orders))
       /\ pc = "mismatch" => UNCHANGED active_close_orders_filled
       /\ (pc = "price" /\ active_close_orders_filled
              /\ cyc' \cap {"stop", "pause"} = {}) =>
            pc' = "place" /\ UNCHANGED <<last_close_orders, grid_except_price>>
       /\ pc = "gate" => ~active_close_orders_filled
       /\ (pc # "place" /\ pc' = "place") =>
            \/ pc = "price" /\ active_close_orders_filled
            \/ /\ pc = "gate"
               /\ \E f \in Fetches :
                     meet_grid_step_condition(active_close_orders, config, f,
                                              grid_except_price).permit
               /\ calculate_wait_time(Len(active_close_orders), last_close_orders,
                                      open_order_age).wait = 0]_vars

\* a cycle that saw a close order go went to the placement inside the base
\* wait, ungated
C27_PlacedUngated ==
    /\ pc = "place" /\ active_close_orders_filled
    /\ active_close_orders # <<>>
    /\ open_order_age \in 0..(wait_time * TicksPerSecond)

\* C28: a cycle that ends at the poll, because the active-order query or the
\* position query failed, leaves the stored snapshot of the active close
\* orders, the consecutive-mismatch counter and the shutdown flag as they
\* were, has asked for no order, and the loop is back at its head.
C28_FailedPollChangesNothing ==
    [][(pc = "loop_top" /\ pc' = "loop_top") =>
        /\ UNCHANGED <<active_close_orders, mismatch_detected_count,
                       shutdown_requested>>
        /\ (cyc' \ cyc) \cap {"place_open", "cancel", "close", "market",
                              "rebalance_market"} = {}]_vars

\* C29: when the quote fetch of the price guard raises, or returns a
\* non-positive bid or ask or a bid not below the ask, the guard reports
\* neither stop nor pause, whatever the thresholds and the prices returned,
\* and run() takes the branch that goes on to the gating.
C29_GuardFailsOpen ==
    pc = "price" =>
        \A f \in Quotes : ~ValidQuote(f) =>
            LET res == check_price_condition(config, f)
            IN  /\ res = <<FALSE, FALSE>>
                /\ GuardBranch(res[1], res[2]) = "trade"

\* a sell grid whose stop threshold lies above every valid bid went on to the
\* gating after a fetch
C29_PassedOnBadQuote ==
    /\ config.direction = "sell" /\ config.stop_price = 110
    /\ "guard_fetch" \in cyc /\ cyc \cap {"stop", "pause"} = {}
    /\ pc \in {"gate", "place"} /\ ~shutdown_requested

====
